---- MODULE Spec2Model ----
(***************************************************************************)
(* Model of the ECLI metadata dashboard: the SQLite store written by       *)
(* scripts/init_database.py and the query functions and routes of          *)
(* dashboard/dashboard.py.                                                 *)
(*                                                                         *)
(* A nullable SQL value (and the Python value read from it) is a sequence  *)
(* of length at most one: << >> is NULL / None, <<v>> is the value v.      *)
(* A Python value handed to a function by its caller is a tagged record;   *)
(* a str is the sequence of its characters.                                *)
(* Timestamps (ISO strings, compared as text by SQLite) are integers.      *)
(***************************************************************************)
EXTENDS Integers, Sequences, FiniteSets, TLC

VARIABLES
    documents,          \* table documents, in rowid order (id = position)
    document_metrics,   \* table document_metrics, in rowid order
    corpus_stats,       \* table corpus_stats, in rowid order (id = position)
    feedback_schema,    \* which CREATE TABLE made user_feedback, if any
    user_feedback,      \* table user_feedback, in rowid order
    open_conns,         \* connections opened and not closed
    ret                 \* the last operation: its arguments and its outcome

vars == <<documents, document_metrics, corpus_stats, feedback_schema,
          user_feedback, open_conns, ret>>

store == <<documents, document_metrics, corpus_stats, feedback_schema, user_feedback>>

(***************************************************************************)
(* Bounds of the model.                                                    *)
(***************************************************************************)
MaxDocs == 2
MaxMetrics == 1
MaxSnapshots == 2
MaxFeedback == 1
MaxOpen == 1

(***************************************************************************)
(* Values.                                                                 *)
(***************************************************************************)
NULL == << >>

Val(v) == <<v>>

IsNull(x) == x = NULL

\* Python values of a caller: a missing dict key, None, a str, an int.
PyAbsent == [t |-> "absent"]

PyNone == [t |-> "none"]

PyStr(s) == [t |-> "str", v |-> s]

PyInt(n) == [t |-> "int", n |-> n]

\* Python truthiness (bool(x)): None, '' and 0 are false.
Truthy(x) ==
    CASE x.t = "absent" -> FALSE
      [] x.t = "none" -> FALSE
      [] x.t = "str" -> x.v /= << >>
      [] x.t = "int" -> x.n /= 0

\* `k in query and query[k]` (dashboard.py 268, 272, 276, 280)
Supplied(x) == x.t /= "absent" /\ Truthy(x)

(***************************************************************************)
(* int(): Python strips white space, accepts one sign and then needs       *)
(* decimal digits.                                                         *)
(***************************************************************************)
DigitChars == {"0", "1", "2", "3", "4", "5", "6", "7", "8", "9"}

DigitVal(c) ==
    CASE c = "0" -> 0 [] c = "1" -> 1 [] c = "2" -> 2 [] c = "3" -> 3
      [] c = "4" -> 4 [] c = "5" -> 5 [] c = "6" -> 6 [] c = "7" -> 7
      [] c = "8" -> 8 [] c = "9" -> 9

RECURSIVE LStrip(_)
LStrip(s) == IF s /= << >> /\ Head(s) = " " THEN LStrip(Tail(s)) ELSE s

RECURSIVE RStrip(_)
RStrip(s) ==
    IF s /= << >> /\ s[Len(s)] = " " THEN RStrip(SubSeq(s, 1, Len(s) - 1)) ELSE s

RECURSIVE DigitsValue(_, _)
DigitsValue(s, acc) ==
    IF s = << >> THEN acc ELSE DigitsValue(Tail(s), 10 * acc + DigitVal(Head(s)))

AllDigits(s) == s /= << >> /\ \A i \in 1..Len(s) : s[i] \in DigitChars

\* int(x): [ok |-> TRUE, v |-> n] or [ok |-> FALSE] (ValueError / TypeError)
ParseInt(x) ==
    CASE x.t = "int" -> [ok |-> TRUE, v |-> x.n]
      [] x.t = "str" ->
            LET s == RStrip(LStrip(x.v))
                signed == s /= << >> /\ Head(s) \in {"-", "+"}
                body == IF signed THEN Tail(s) ELSE s
            IN  IF AllDigits(body)
                THEN [ok |-> TRUE,
                      v |-> IF signed /\ Head(s) = "-"
                            THEN 0 - DigitsValue(body, 0)
                            ELSE DigitsValue(body, 0)]
                ELSE [ok |-> FALSE, v |-> 0]
      [] OTHER -> [ok |-> FALSE, v |-> 0]

(***************************************************************************)
(* The store.                                                              *)
(***************************************************************************)
STJ == <<"S", "T", "J">>

TRL == <<"T", "R", "L">>

Y2020 == <<"2", "0", "2", "0">>

Courts == {STJ, TRL}

Years == {Y2020}

\* datetime.now().isoformat(): two instants, the later the greater
Dates == {1, 2}

PageCounts == {2, 5}

Nullable(S) == {NULL} \cup {Val(v) : v \in S}

DocIds == 1..MaxDocs

\* ecli_id TEXT UNIQUE NOT NULL: built from the row's own data
EcliOf(id) == <<"ECLI", id>>

NoOp == [op |-> "none"]

Init ==
    /\ documents = << >>
    /\ document_metrics = << >>
    /\ corpus_stats = << >>
    /\ feedback_schema = "absent"
    /\ user_feedback = << >>
    /\ open_conns = 0
    /\ ret = NoOp

(***************************************************************************)
(* Writes to the store.  Rows come from init_database.py's INSERTs, with   *)
(* any value its CREATE TABLE statements admit in the nullable columns.    *)
(* The columns no query of the dashboard reads into a decision             *)
(* (case_number, file_path, last_updated, document_date, language, judge)  *)
(* are left out of the rows.                                               *)
(***************************************************************************)
\* No request is being served: requests are served one at a time.
Idle == ret = NoOp

\* INSERT INTO documents (init_database.py 128-139), id = lastrowid
InsertDocument(C, Y, D) ==
    /\ Idle
    /\ Len(documents) < MaxDocs
    /\ \E c \in C, y \in Y, a \in D :
          documents' = Append(documents,
              [id |-> Len(documents) + 1, ecli_id |-> EcliOf(Len(documents) + 1),
               court |-> c, year |-> y, added_date |-> a])
    /\ ret' = NoOp
    /\ UNCHANGED <<document_metrics, corpus_stats, feedback_schema, user_feedback,
                   open_conns>>

\* INSERT INTO document_metrics (init_database.py 158-169).  SQLite does not
\* enforce the FOREIGN KEY (no PRAGMA foreign_keys), nor one row per document.
InsertMetrics(PC, FS, MD) ==
    /\ Idle
    /\ Len(document_metrics) < MaxMetrics
    /\ \E d \in DocIds, pc \in PC, fs \in FS, md \in MD :
          document_metrics' = Append(document_metrics,
              [document_id |-> d, page_count |-> pc, file_size |-> fs,
               pdf_metadata |-> md])
    /\ ret' = NoOp
    /\ UNCHANGED <<documents, corpus_stats, feedback_schema, user_feedback,
                   open_conns>>

(***************************************************************************)
(* SQL.                                                                    *)
(***************************************************************************)
\* one row of documents d LEFT JOIN document_metrics m ON d.id = m.document_id
JoinRow(d, m) ==
    [id |-> Val(d.id), ecli_id |-> Val(d.ecli_id), court |-> d.court, year |-> d.year,
     added_date |-> d.added_date, page_count |-> m.page_count,
     file_size |-> m.file_size, pdf_metadata |-> m.pdf_metadata]

NullMetrics == [page_count |-> NULL, file_size |-> NULL, pdf_metadata |-> NULL]

MetricsOf(d, mets) ==
    LET OnDoc(m) == m.document_id = d.id IN SelectSeq(mets, OnDoc)

RECURSIVE JoinRows(_, _)
JoinRows(d, ms) ==
    IF ms = << >> THEN << >> ELSE <<JoinRow(d, Head(ms))>> \o JoinRows(d, Tail(ms))

\* LEFT JOIN: a document without a metrics row yields one row of NULLs
RECURSIVE LeftJoin(_, _)
LeftJoin(docs, mets) ==
    IF docs = << >> THEN << >>
    ELSE LET d == Head(docs)
             ms == MetricsOf(d, mets)
         IN  (IF ms = << >> THEN <<JoinRow(d, NullMetrics)>> ELSE JoinRows(d, ms))
             \o LeftJoin(Tail(docs), mets)

\* (INNER) JOIN: a document without a metrics row yields nothing
RECURSIVE InnerJoin(_, _)
InnerJoin(docs, mets) ==
    IF docs = << >> THEN << >>
    ELSE JoinRows(Head(docs), MetricsOf(Head(docs), mets))
         \o InnerJoin(Tail(docs), mets)

\* A comparison with NULL is not true.
SqlEq(x, p) == x /= NULL /\ x[1] = p

SqlGe(x, p) == x /= NULL /\ x[1] >= p

SqlLe(x, p) == x /= NULL /\ x[1] <= p

\* ORDER BY ... DESC: NULL is the smallest value, so it sorts last; the order
\* of rows with equal keys is not defined.
\* (mutation of DescBefore: NULL taken as the greatest value, as in stores
\* that sort NULLs first in a descending order)
DescBefore_NullsFirst(a, b) == a = NULL \/ (b /= NULL /\ a[1] >= b[1])

DescBefore(a, b) == b = NULL \/ (a /= NULL /\ a[1] >= b[1])

OrderByDesc(rows, col) ==
    LET n == Len(rows)
        ok == {p \in Permutations(1..n) :
                  \A i, j \in 1..n : i < j => DescBefore(rows[p[i]][col], rows[p[j]][col])}
    IN  {[i \in 1..n |-> rows[p[i]]] : p \in ok}

Limit(rows, n) == SubSeq(rows, 1, IF n < Len(rows) THEN n ELSE Len(rows))

Project(row, cols) == [c \in cols |-> row[c]]

ProjectAll(rows, cols) == [i \in 1..Len(rows) |-> Project(rows[i], cols)]

(***************************************************************************)
(* get_db_connection and the failures of the store.  A fault names the     *)
(* step of an operation at which sqlite3 raises: "connect"                 *)
(* (sqlite3.connect cannot open the file), "cursor", "execute" (a          *)
(* statement fails: no such table, database locked), "convert".            *)
(***************************************************************************)
\* [ok, opened]: sqlite3.connect raises OperationalError, or yields a connection
get_db_connection(fault) ==
    IF fault = "connect" THEN [ok |-> FALSE, opened |-> 0]
    ELSE [ok |-> TRUE, opened |-> 1]

(***************************************************************************)
(* search_documents (dashboard.py 245-297)                                 *)
(***************************************************************************)
SearchCols == {"ecli_id", "court", "year", "added_date", "page_count", "file_size"}

\* lines 265-282: the predicates appended to WHERE 1=1 and their parameters,
\* in lockstep; int() of a page bound may raise ValueError
\* (mutation of BuildSearch: a page bound that is no integer is dropped
\* instead of raising)
BuildSearch_IgnoreBad(query) ==
    LET mn == ParseInt(query.min_pages)
        mx == ParseInt(query.max_pages)
    IN  [ok |-> TRUE,
         preds |->
            (IF Supplied(query.court)
             THEN <<[col |-> "court", cmp |-> "=", param |-> query.court.v]>>
             ELSE << >>)
            \o (IF Supplied(query.year)
                THEN <<[col |-> "year", cmp |-> "=", param |-> query.year.v]>>
                ELSE << >>)
            \o (IF Supplied(query.min_pages) /\ mn.ok
                THEN <<[col |-> "page_count", cmp |-> ">=", param |-> mn.v]>>
                ELSE << >>)
            \o (IF Supplied(query.max_pages) /\ mx.ok
                THEN <<[col |-> "page_count", cmp |-> "<=", param |-> mx.v]>>
                ELSE << >>)]

BuildSearch(query) ==
    LET mn == ParseInt(query.min_pages)
        mx == ParseInt(query.max_pages)
    IN  [ok |-> /\ (Supplied(query.min_pages) => mn.ok)
                /\ (Supplied(query.max_pages) => mx.ok),
         preds |->
            (IF Supplied(query.court)
             THEN <<[col |-> "court", cmp |-> "=", param |-> query.court.v]>>
             ELSE << >>)
            \o (IF Supplied(query.year)
                THEN <<[col |-> "year", cmp |-> "=", param |-> query.year.v]>>
                ELSE << >>)
            \o (IF Supplied(query.min_pages)
                THEN <<[col |-> "page_count", cmp |-> ">=", param |-> mn.v]>>
                ELSE << >>)
            \o (IF Supplied(query.max_pages)
                THEN <<[col |-> "page_count", cmp |-> "<=", param |-> mx.v]>>
                ELSE << >>)]

Holds(row, pred) ==
    CASE pred.cmp = "=" -> SqlEq(row[pred.col], pred.param)
      [] pred.cmp = ">=" -> SqlGe(row[pred.col], pred.param)
      [] pred.cmp = "<=" -> SqlLe(row[pred.col], pred.param)

Where(rows, preds) ==
    LET Sat(row) == \A i \in 1..Len(preds) : Holds(row, preds[i])
    IN  SelectSeq(rows, Sat)

\* line 288: the results the statement can return
SearchResults(preds) ==
    OrderByDesc(Where(LeftJoin(documents, document_metrics), preds), "added_date")

\* The end of an operation: what it returned or raised, the statements it
\* ran, and whether it opened and closed its connection.
Finish(base, opened, closed, raised, value, executed) ==
    /\ open_conns + opened - closed <= MaxOpen
    /\ open_conns' = open_conns + opened - closed
    /\ ret' = base @@ [raised |-> raised, value |-> value, executed |-> executed,
                       opened |-> opened, closed |-> closed]

search_documents(Q, F) ==
    \E query \in Q, fault \in F :
        LET conn == get_db_connection(fault)
            built == BuildSearch(query)
            base == [op |-> "search_documents", query |-> query]
        IN  /\ Idle
            /\ UNCHANGED store
            /\ IF ~conn.ok
               THEN Finish(base, 0, 0, "OperationalError", << >>, << >>)
               ELSE IF fault = "cursor"
               THEN Finish(base, 1, 0, "OperationalError", << >>, << >>)
               ELSE IF ~built.ok
               THEN \* line 278 or 282 raises: lines 288-291 are not reached
                    Finish(base, 1, 0, "ValueError", << >>, << >>)
               ELSE IF fault = "execute"
               THEN Finish(base, 1, 0, "OperationalError", << >>, << >>)
               ELSE \E rows \in SearchResults(built.preds) :
                    Finish(base, 1, 1, "none", ProjectAll(rows, SearchCols),
                           <<built.preds>>)

\* The route hands the outcome to its client (jsonify, or the error page of
\* an uncaught exception) and the next request can be served.
Respond ==
    /\ ~Idle
    /\ ret' = NoOp
    /\ UNCHANGED <<store, open_conns>>

(***************************************************************************)
(* The filters a caller passes to search_documents.                        *)
(***************************************************************************)
Empty == PyStr(<< >>)

\* every page bound absent, empty or an integer (as text or as an int)
SearchQueries ==
    [court : {PyNone, Empty, PyStr(STJ)},
     year : {PyAbsent, PyStr(Y2020)},
     min_pages : {PyNone, PyStr(<<"3">>), PyInt(0)},
     max_pages : {PyAbsent, Empty, PyStr(<<" ", "3">>), PyInt(0)}]

NoFault == {"none"}

NextSearch ==
    \/ InsertDocument(Nullable(Courts), Nullable(Years), Nullable(Dates))
    \/ InsertMetrics(Nullable(PageCounts), {NULL}, {NULL})
    \/ search_documents(SearchQueries, NoFault)
    \/ Respond

SpecSearch == Init /\ [][NextSearch]_vars

(***************************************************************************)
(* json.  A JSON text is the sequence of its tokens; json.loads parses a   *)
(* scalar, an object of scalars or an array of scalars and raises          *)
(* JSONDecodeError on anything else (the empty text, a truncated text).    *)
(* A dict is the set of its <<key, value>> pairs.                          *)
(***************************************************************************)
PyDict(pairs) == [t |-> "dict", d |-> pairs]

PyList(elems) == [t |-> "list", l |-> elems]

LBrace == [tok |-> "{"]

RBrace == [tok |-> "}"]

LBrack == [tok |-> "["]

RBrack == [tok |-> "]"]

Colon == [tok |-> ":"]

Comma == [tok |-> ","]

NullTok == [tok |-> "null"]

StrTok(s) == [tok |-> "str", s |-> s]

NumTok(n) == [tok |-> "num", n |-> n]

IsScalarTok(k) == k.tok \in {"str", "num", "null"}

ScalarOf(k) ==
    CASE k.tok = "str" -> PyStr(k.s)
      [] k.tok = "num" -> PyInt(k.n)
      [] k.tok = "null" -> PyNone

\* d[k] = v
DictSet(pairs, k, v) == {q \in pairs : q[1] /= k} \cup {<<k, v>>}

\* the members of an object: "key" : scalar (, "key" : scalar)*
RECURSIVE ParseMembers(_, _)
ParseMembers(toks, acc) ==
    IF Len(toks) >= 3 /\ toks[1].tok = "str" /\ toks[2] = Colon /\ IsScalarTok(toks[3])
    THEN LET acc2 == DictSet(acc, toks[1].s, ScalarOf(toks[3]))
         IN  IF Len(toks) = 3 THEN [ok |-> TRUE, v |-> PyDict(acc2)]
             ELSE IF toks[4] = Comma THEN ParseMembers(SubSeq(toks, 5, Len(toks)), acc2)
             ELSE [ok |-> FALSE, v |-> PyNone]
    ELSE [ok |-> FALSE, v |-> PyNone]

\* the elements of an array: scalar (, scalar)*
RECURSIVE ParseElements(_, _)
ParseElements(toks, acc) ==
    IF Len(toks) >= 1 /\ IsScalarTok(toks[1])
    THEN LET acc2 == Append(acc, ScalarOf(toks[1]))
         IN  IF Len(toks) = 1 THEN [ok |-> TRUE, v |-> PyList(acc2)]
             ELSE IF toks[2] = Comma THEN ParseElements(SubSeq(toks, 3, Len(toks)), acc2)
             ELSE [ok |-> FALSE, v |-> PyNone]
    ELSE [ok |-> FALSE, v |-> PyNone]

\* json.loads(text): [ok |-> TRUE, v |-> value], or [ok |-> FALSE] for
\* JSONDecodeError
JsonLoads(text) ==
    LET n == Len(text)
        inner == SubSeq(text, 2, n - 1)
    IN  IF n = 0 THEN [ok |-> FALSE, v |-> PyNone]
        ELSE IF n = 1
        THEN IF IsScalarTok(text[1]) THEN [ok |-> TRUE, v |-> ScalarOf(text[1])]
             ELSE [ok |-> FALSE, v |-> PyNone]
        ELSE IF text[1] = LBrace /\ text[n] = RBrace
        THEN IF inner = << >> THEN [ok |-> TRUE, v |-> PyDict({})]
             ELSE ParseMembers(inner, {})
        ELSE IF text[1] = LBrack /\ text[n] = RBrack
        THEN IF inner = << >> THEN [ok |-> TRUE, v |-> PyList(<< >>)]
             ELSE ParseElements(inner, << >>)
        ELSE [ok |-> FALSE, v |-> PyNone]

NullKey == <<"n", "u", "l", "l">>

\* json.dumps of a dict of counts, given as the GROUP BY rows <<key, count>>
\* with key a nullable column value: None becomes the key "null"
RECURSIVE DumpMembers(_)
DumpMembers(rows) ==
    IF rows = {} THEN << >>
    ELSE LET r == CHOOSE x \in rows : TRUE
             key == IF r[1] = NULL THEN NullKey ELSE r[1][1]
             rest == DumpMembers(rows \ {r})
         IN  <<StrTok(key), Colon, NumTok(r[2])>>
             \o (IF rest = << >> THEN << >> ELSE <<Comma>> \o rest)

JsonDumps(rows) == <<LBrace>> \o DumpMembers(rows) \o <<RBrace>>

(***************************************************************************)
(* Aggregates.                                                             *)
(***************************************************************************)
\* SELECT col, COUNT(*) FROM documents GROUP BY col: rows <<value, count>>
GroupCount(docs, col) ==
    {<<v, Cardinality({k \in 1..Len(docs) : docs[k][col] = v})>> :
        v \in {docs[k][col] : k \in 1..Len(docs)}}

RECURSIVE SumCol(_, _)
SumCol(rows, col) ==
    IF rows = << >> THEN 0
    ELSE (IF Head(rows)[col] = NULL THEN 0 ELSE Head(rows)[col][1])
         + SumCol(Tail(rows), col)

\* SELECT SUM(col) FROM document_metrics: NULL when no row has a value
SqlSum(rows, col) ==
    IF \A k \in 1..Len(rows) : rows[k][col] = NULL THEN NULL
    ELSE Val(SumCol(rows, col))

\* `cursor.fetchone()[0] or 0`
OrZero(x) == IF x = NULL THEN Val(0) ELSE x

(***************************************************************************)
(* generate_corpus_stats (init_database.py 175-214)                        *)
(***************************************************************************)
generate_corpus_stats ==
    /\ Idle
    /\ Len(corpus_stats) < MaxSnapshots
    /\ \E now \in Dates :
          corpus_stats' = Append(corpus_stats,
              [id |-> Len(corpus_stats) + 1,
               total_documents |-> Val(Len(documents)),
               total_pages |-> OrZero(SqlSum(document_metrics, "page_count")),
               total_size_bytes |-> OrZero(SqlSum(document_metrics, "file_size")),
               courts |-> Val(JsonDumps(GroupCount(documents, "court"))),
               years |-> Val(JsonDumps(GroupCount(documents, "year"))),
               generated_at |-> Val(now)])
    /\ ret' = NoOp
    /\ UNCHANGED <<documents, document_metrics, feedback_schema, user_feedback,
                   open_conns>>

\* A row of corpus_stats written by another hand than generate_corpus_stats:
\* the TEXT columns courts and years hold any text, or NULL.
WriteSnapshot(N, T) ==
    /\ Idle
    /\ Len(corpus_stats) < MaxSnapshots
    /\ \E n \in N, c \in T, y \in T, now \in Dates :
          corpus_stats' = Append(corpus_stats,
              [id |-> Len(corpus_stats) + 1,
               total_documents |-> n, total_pages |-> n, total_size_bytes |-> n,
               courts |-> c, years |-> y, generated_at |-> Val(now)])
    /\ ret' = NoOp
    /\ UNCHANGED <<documents, document_metrics, feedback_schema, user_feedback,
                   open_conns>>

(***************************************************************************)
(* get_corpus_stats (dashboard.py 43-107)                                  *)
(***************************************************************************)
\* a fetched column as the Python value dict(row) holds: None or the text
PyOfText(x) == IF x = NULL THEN PyNone ELSE PyStr(x[1])

\* lines 66-70 and 72-76: a truthy field is parsed; JSONDecodeError gives {}
DecodeField(x) ==
    IF Truthy(PyOfText(x))
    THEN LET r == JsonLoads(x[1]) IN IF r.ok THEN r.v ELSE PyDict({})
    ELSE PyOfText(x)

\* lines 91-95: the dict comprehension keeps the truthy keys
CountsDict(rows) ==
    PyDict({<<r[1][1], PyInt(r[2])>> : r \in {x \in rows : x[1] /= NULL /\ x[1][1] /= << >>}})

\* lines 60-79
StatsOfSnapshot(row) ==
    [id |-> row.id,
     total_documents |-> row.total_documents,
     total_pages |-> row.total_pages,
     total_size_bytes |-> row.total_size_bytes,
     courts |-> DecodeField(row.courts),
     years |-> DecodeField(row.years),
     generated_at |-> row.generated_at]

\* lines 82-104
ComputedStats(now) ==
    [total_documents |-> Val(Len(documents)),
     total_pages |-> OrZero(SqlSum(document_metrics, "page_count")),
     total_size_bytes |-> OrZero(SqlSum(document_metrics, "file_size")),
     courts |-> CountsDict(GroupCount(documents, "court")),
     years |-> CountsDict(GroupCount(documents, "year")),
     generated_date |-> Val(now)]

\* (mutation of LatestSnapshot: ORDER BY id, the row with the least id)
LatestSnapshot_Oldest(rows) ==
    CHOOSE r \in {rows[k] : k \in 1..Len(rows)} :
        \A k \in 1..Len(rows) : r.id <= rows[k].id

\* lines 54-59: ORDER BY id DESC LIMIT 1, the row with the greatest id
LatestSnapshot(rows) ==
    CHOOSE r \in {rows[k] : k \in 1..Len(rows)} :
        \A k \in 1..Len(rows) : rows[k].id <= r.id

get_corpus_stats(F) ==
    \E fault \in F, now \in Dates :
        LET conn == get_db_connection(fault)
            base == [op |-> "get_corpus_stats"]
            n == Len(corpus_stats)
        IN  /\ Idle
            /\ UNCHANGED store
            /\ IF ~conn.ok
               THEN Finish(base, 0, 0, "OperationalError", NULL, << >>)
               ELSE IF fault \in {"cursor", "execute"}
               THEN Finish(base, 1, 0, "OperationalError", NULL, << >>)
               ELSE IF n > 0
               THEN \* ORDER BY id DESC LIMIT 1
                    Finish(base, 1, 1, "none",
                           StatsOfSnapshot(LatestSnapshot(corpus_stats)),
                           <<"corpus_stats">>)
               ELSE Finish(base, 1, 1, "none", ComputedStats(now),
                           <<"corpus_stats", "count", "sum_pages", "sum_size",
                             "by_court", "by_year">>)

(***************************************************************************)
(* get_documents_by_court, get_documents_by_year, get_document_metrics     *)
(* (dashboard.py 109-186)                                                  *)
(***************************************************************************)
\* a SELECT without ORDER BY returns its rows in no defined order
AnyOrder(rows) ==
    {[i \in 1..Len(rows) |-> rows[p[i]]] : p \in Permutations(1..Len(rows))}

RECURSIVE SetToSeq(_)
SetToSeq(S) ==
    IF S = {} THEN << >>
    ELSE LET x == CHOOSE y \in S : TRUE IN <<x>> \o SetToSeq(S \ {x})

\* WHERE col IS NOT NULL GROUP BY col, as rows of the columns col and count
GroupRows(docs, col) ==
    SetToSeq({[key |-> g[1], count |-> Val(g[2])] :
                 g \in {x \in GroupCount(docs, col) : x[1] /= NULL}})

\* ORDER BY year: the texts of the years, in ascending order
YearsAscending(rows) ==
    {r \in AnyOrder(rows) :
        \A i, j \in 1..Len(r) :
            i < j => DigitsValue(r[i].key[1], 0) <= DigitsValue(r[j].key[1], 0)}

\* The operations of lines 109-186 share one shape: connect, cursor, one
\* SELECT, fetchall, conn.close(), and the rows as a DataFrame.
ReadRows(name, F, results) ==
    \E fault \in F :
        LET conn == get_db_connection(fault)
            base == [op |-> name]
        IN  /\ Idle
            /\ UNCHANGED store
            /\ IF ~conn.ok
               THEN Finish(base, 0, 0, "OperationalError", << >>, << >>)
               ELSE IF fault \in {"cursor", "execute"}
               THEN Finish(base, 1, 0, "OperationalError", << >>, << >>)
               ELSE \E rows \in results : Finish(base, 1, 1, "none", rows, <<name>>)

get_documents_by_court(F) ==
    ReadRows("get_documents_by_court", F,
             OrderByDesc(GroupRows(documents, "court"), "count"))

get_documents_by_year(F) ==
    ReadRows("get_documents_by_year", F, YearsAscending(GroupRows(documents, "year")))

MetricsCols == {"ecli_id", "court", "year", "page_count", "file_size"}

get_document_metrics(F) ==
    ReadRows("get_document_metrics", F,
             AnyOrder(ProjectAll(InnerJoin(documents, document_metrics), MetricsCols)))

(***************************************************************************)
(* get_recent_documents (dashboard.py 188-243)                             *)
(***************************************************************************)
RecentCols == {"id", "ecli_id", "court", "year", "added_date", "page_count", "file_size"}

Unknown == <<"U", "n", "k", "n", "o", "w", "n">>

\* lines 226-236: dict(row) with the None of four fields replaced
Normalized(row) ==
    [c \in RecentCols |->
        IF row[c] /= NULL THEN row[c]
        ELSE IF c = "ecli_id" THEN Val(<<"ECLI_UNKNOWN", row.id>>)
        ELSE IF c \in {"court", "year", "added_date"} THEN Val(Unknown)
        ELSE NULL]

NormalizedAll(rows) == [i \in 1..Len(rows) |-> Normalized(rows[i])]

\* lines 203-211: ORDER BY d.added_date DESC LIMIT ?
RecentPrimary(limit) ==
    {Limit(r, limit) : r \in OrderByDesc(LeftJoin(documents, document_metrics), "added_date")}

\* lines 215-222: ORDER BY d.id DESC LIMIT ?
RecentFallback(limit) ==
    {Limit(r, limit) : r \in OrderByDesc(LeftJoin(documents, document_metrics), "id")}

\* lines 198-243.  A fault is the step that raises: "connect", "cursor",
\* "execute" (the first query), "fallback" (the second query, when it runs),
\* "convert" (the conversion of a row, when there is one).
get_recent_documents(L, F) ==
    \E limit \in L, fault \in F :
        LET conn == get_db_connection(fault)
            base == [op |-> "get_recent_documents", limit |-> limit, fault |-> fault]
            \* lines 224-243
            Converted(rows, executed) ==
                IF fault = "convert" /\ rows /= << >>
                THEN Finish(base, 1, 1, "none", << >>, executed)
                ELSE Finish(base, 1, 1, "none", NormalizedAll(rows), executed)
        IN  /\ Idle
            /\ UNCHANGED store
            /\ IF ~conn.ok
               THEN \* line 198 is outside the try
                    Finish(base, 0, 0, "OperationalError", << >>, << >>)
               ELSE IF fault = "cursor"
               THEN \* line 199 is outside the try
                    Finish(base, 1, 0, "OperationalError", << >>, << >>)
               ELSE IF fault = "execute"
               THEN \* lines 240-243
                    Finish(base, 1, 1, "none", << >>, << >>)
               ELSE \E rows \in RecentPrimary(limit) :
                        IF rows /= << >> THEN Converted(rows, <<"primary">>)
                        ELSE \* line 214: the first query returned no row
                             IF fault = "fallback"
                             THEN Finish(base, 1, 1, "none", << >>, <<"primary">>)
                             ELSE \E rows2 \in RecentFallback(limit) :
                                     Converted(rows2, <<"primary", "fallback">>)

(***************************************************************************)
(* get_document (dashboard.py 363-395)                                     *)
(***************************************************************************)
\* SELECT d.*, m.page_count, m.file_size, ..., m.pdf_metadata
DetailCols ==
    {"id", "ecli_id", "court", "year", "added_date", "page_count", "file_size",
     "pdf_metadata"}

\* a dict of str keys as a function
DictFn(pairs) ==
    [k \in {q[1] : q \in pairs} |-> (CHOOSE q \in pairs : q[1] = k)[2]]

\* del d[k]
Del(d, k) == [x \in DOMAIN d \ {k} |-> d[x]]

\* lines 385-390: doc.update(json.loads(...)) inside try / except: pass;
\* update() of a value that is no mapping raises and changes nothing
Updated(doc, text) ==
    LET r == JsonLoads(text)
    IN  IF r.ok /\ r.v.t = "dict" THEN DictFn(r.v.d) @@ doc ELSE doc

\* lines 382-391: dict(row), the blob merged and deleted when it is truthy
Detail(row) ==
    LET doc == Project(row, DetailCols)
    IN  IF Truthy(PyOfText(row.pdf_metadata))
        THEN Del(Updated(doc, row.pdf_metadata[1]), "pdf_metadata")
        ELSE doc

NotFound == [error |-> "Document not found"]

get_document(E, F) ==
    \E ecli_id \in E, fault \in F :
        LET conn == get_db_connection(fault)
            base == [op |-> "get_document", ecli_id |-> ecli_id]
            found == Where(LeftJoin(documents, document_metrics),
                           <<[col |-> "ecli_id", cmp |-> "=", param |-> ecli_id]>>)
        IN  /\ Idle
            /\ UNCHANGED store
            /\ IF ~conn.ok
               THEN Finish(base, 0, 0, "OperationalError", NULL, << >>)
               ELSE IF fault \in {"cursor", "execute"}
               THEN Finish(base, 1, 0, "OperationalError", NULL, << >>)
               ELSE IF found = << >>
               THEN \* line 395
                    Finish(base @@ [status |-> 404], 1, 1, "none", NotFound,
                           <<"get_document">>)
               ELSE \* fetchone(): one of the rows, in no defined order
                    \E k \in 1..Len(found) :
                        Finish(base @@ [status |-> 200], 1, 1, "none", Detail(found[k]),
                               <<"get_document">>)

(***************************************************************************)
(* user_feedback: init_database.py 65-79 and submit_feedback               *)
(* (dashboard.py 410-455)                                                  *)
(***************************************************************************)
\* the columns of each CREATE TABLE user_feedback
BootstrapColumns ==
    {"id", "document_id", "type", "rating", "comment", "user_agent", "submitted_at"}

DashboardColumns ==
    {"id", "feedback_type", "rating", "comment", "document_id", "user_agent", "timestamp"}

FeedbackColumns ==
    IF feedback_schema = "bootstrap" THEN BootstrapColumns ELSE DashboardColumns

\* the columns the INSERT of lines 439-442 names
InsertColumns ==
    {"feedback_type", "rating", "comment", "document_id", "user_agent", "timestamp"}

\* init_database.py 23-79: CREATE TABLE IF NOT EXISTS ... ; commit
CreateTables ==
    /\ Idle
    /\ feedback_schema' = IF feedback_schema = "absent" THEN "bootstrap"
                          ELSE feedback_schema
    /\ ret' = NoOp
    /\ UNCHANGED <<documents, document_metrics, corpus_stats, user_feedback, open_conns>>

\* feedback_data.get(k)
Get(d, k) == IF k \in DOMAIN d THEN Val(d[k]) ELSE NULL

\* line 419: feedback_data['timestamp'] = datetime.now().isoformat()
Stamped(d, now) == [timestamp |-> [by |-> "server", at |-> now]] @@ d

\* lines 443-450
FeedbackRow(d, id) ==
    [id |-> id,
     feedback_type |-> Get(d, "type"),
     rating |-> Get(d, "rating"),
     comment |-> Get(d, "comment"),
     document_id |-> Get(d, "document_id"),
     user_agent |-> Get(d, "user_agent"),
     timestamp |-> Get(d, "timestamp")]

Success == [success |-> TRUE, message |-> "Feedback submitted successfully"]

NoData == [error |-> "No feedback data provided"]

submit_feedback(D, F) ==
    \E data \in D, fault \in F, now \in Dates :
        LET conn == get_db_connection(fault)
            base == [op |-> "submit_feedback", data |-> data, before |-> user_feedback]
            stamped == Stamped(data, now)
        IN  /\ Idle
            /\ UNCHANGED <<documents, document_metrics, corpus_stats>>
            /\ IF DOMAIN data = {}
               THEN \* lines 415-416: no connection is opened
                    /\ Finish(base @@ [status |-> 400], 0, 0, "none", NoData, << >>)
                    /\ UNCHANGED <<feedback_schema, user_feedback>>
               ELSE IF ~conn.ok
               THEN /\ Finish(base, 0, 0, "OperationalError", NULL, << >>)
                    /\ UNCHANGED <<feedback_schema, user_feedback>>
               ELSE IF fault \in {"cursor", "execute"}
               THEN /\ Finish(base, 1, 0, "OperationalError", NULL, << >>)
                    /\ UNCHANGED <<feedback_schema, user_feedback>>
               ELSE IF ~(InsertColumns \subseteq FeedbackColumns)
               THEN \* CREATE TABLE IF NOT EXISTS changes nothing; the INSERT
                    \* names a column the table has not; nothing is committed
                    /\ Finish(base, 1, 0, "OperationalError", NULL, <<"create">>)
                    /\ UNCHANGED <<feedback_schema, user_feedback>>
               ELSE /\ Len(user_feedback) < MaxFeedback
                    /\ feedback_schema' = "dashboard"
                    /\ user_feedback' = Append(user_feedback,
                                               FeedbackRow(stamped, Len(user_feedback) + 1))
                    /\ Finish(base @@ [status |-> 200], 1, 1, "none", Success,
                              <<"create", "insert", "commit">>)

(***************************************************************************)
(* What a filter asks for, read off the filter alone: a field is supplied  *)
(* when it is present and not empty.                                       *)
(***************************************************************************)
Present(x) == x.t \in {"str", "int"} /\ x /= Empty

IsInteger(x) == ParseInt(x).ok

WellFormed(query) ==
    /\ Present(query.min_pages) => IsInteger(query.min_pages)
    /\ Present(query.max_pages) => IsInteger(query.max_pages)

\* the row satisfies every predicate the filter supplies
Satisfies(row, query) ==
    /\ Present(query.court) => row.court = Val(query.court.v)
    /\ Present(query.year) => row.year = Val(query.year.v)
    /\ Present(query.min_pages) =>
          row.page_count /= NULL /\ row.page_count[1] >= ParseInt(query.min_pages).v
    /\ Present(query.max_pages) =>
          row.page_count /= NULL /\ row.page_count[1] <= ParseInt(query.max_pages).v

Searched == ret.op = "search_documents"

\* C1: for every store state and every well-formed filter, search_documents
\* returns exactly the rows that satisfy all supplied predicates: no returned
\* row fails a supplied predicate and no satisfying row is missing.
C1_SearchExact ==
    (Searched /\ WellFormed(ret.query)) =>
        LET all == ProjectAll(LeftJoin(documents, document_metrics), SearchCols)
        IN  /\ ret.raised = "none"
            /\ \A i \in 1..Len(ret.value) : Satisfies(ret.value[i], ret.query)
            /\ \A j \in 1..Len(all) :
                  Satisfies(all[j], ret.query) =>
                      \E i \in 1..Len(ret.value) : ret.value[i] = all[j]

(***************************************************************************)
(* search_documents with every field absent or empty.                      *)
(***************************************************************************)
EmptyQueries ==
    [court : {PyAbsent, PyNone, Empty},
     year : {PyNone},
     min_pages : {Empty},
     max_pages : {PyAbsent, Empty}]

NextSearchAll ==
    \/ InsertDocument(Nullable({STJ}), Nullable(Years), Nullable(Dates))
    \/ InsertMetrics(Nullable({2}), {NULL}, {NULL})
    \/ search_documents(EmptyQueries, NoFault)
    \/ Respond

SpecSearchAll == Init /\ [][NextSearchAll]_vars

AllEmpty(query) ==
    /\ ~Present(query.court) /\ query.court.t /= "int"
    /\ ~Present(query.year) /\ query.year.t /= "int"
    /\ ~Present(query.min_pages) /\ query.min_pages.t /= "int"
    /\ ~Present(query.max_pages) /\ query.max_pages.t /= "int"

HasMetrics(d) == \E k \in 1..Len(document_metrics) : document_metrics[k].document_id = d.id

\* C2: with all four fields absent or empty, search_documents returns every
\* document (a document without a metrics row with null metric fields) and
\* nothing else, ordered by added_date descending, null added_date last.
C2_AllDocumentsNewestFirst ==
    (Searched /\ AllEmpty(ret.query)) =>
        /\ ret.raised = "none"
        /\ \A k \in 1..Len(documents) :
              \E i \in 1..Len(ret.value) :
                  /\ ret.value[i].ecli_id = Val(documents[k].ecli_id)
                  /\ ret.value[i].court = documents[k].court
                  /\ ret.value[i].year = documents[k].year
                  /\ ret.value[i].added_date = documents[k].added_date
                  /\ ~HasMetrics(documents[k]) =>
                        ret.value[i].page_count = NULL /\ ret.value[i].file_size = NULL
        /\ \A i \in 1..Len(ret.value) :
              \E k \in 1..Len(documents) : ret.value[i].ecli_id = Val(documents[k].ecli_id)
        /\ \A i, j \in 1..Len(ret.value) :
              i < j =>
                  /\ ret.value[i].added_date = NULL => ret.value[j].added_date = NULL
                  /\ (ret.value[i].added_date /= NULL /\ ret.value[j].added_date /= NULL)
                        => ret.value[i].added_date[1] >= ret.value[j].added_date[1]

\* the case of C2: a dated document, an undated one, and one of them without
\* a metrics row
C2_Witness ==
    /\ Searched /\ AllEmpty(ret.query)
    /\ Len(ret.value) >= 2
    /\ \E i, j \in 1..Len(ret.value) :
          ret.value[i].added_date /= NULL /\ ret.value[j].added_date = NULL
    /\ \E k \in 1..Len(documents) : ~HasMetrics(documents[k])
    /\ \E k \in 1..Len(documents) : HasMetrics(documents[k])

(***************************************************************************)
(* search_documents with a page bound that is no integer.                  *)
(***************************************************************************)
BoundQueries ==
    [court : {PyNone, PyStr(STJ)},
     year : {PyAbsent},
     min_pages : {PyNone, PyStr(<<"x">>), PyStr(<<"2">>)},
     max_pages : {PyAbsent, Empty, PyStr(<<"3", ".", "5">>)}]

NextSearchInvalid ==
    \/ InsertDocument(Nullable({STJ}), {NULL}, Nullable({1}))
    \/ InsertMetrics(Nullable({2}), {NULL}, {NULL})
    \/ search_documents(BoundQueries, NoFault)
    \/ Respond

SpecSearchInvalid == Init /\ [][NextSearchInvalid]_vars

BadBound(x) == Present(x) /\ ~IsInteger(x)

\* C3: when min_pages or max_pages is present, non-empty and not parseable as
\* an integer, search_documents raises to its caller and executes no
\* statement, also none built from the valid fields; nothing is returned.
C3_InvalidBoundRaises ==
    (Searched /\ (BadBound(ret.query.min_pages) \/ BadBound(ret.query.max_pages))) =>
        /\ ret.raised = "ValueError"
        /\ ret.executed = << >>
        /\ ret.value = << >>

\* the case of C3: a bad bound beside a valid court, over a store whose rows
\* the valid part of the filter would have matched
C3_Witness ==
    /\ Searched
    /\ BadBound(ret.query.max_pages)
    /\ ret.query.court = PyStr(STJ)
    /\ ret.raised = "ValueError"
    /\ \E k \in 1..Len(documents) : documents[k].court = Val(STJ)

(***************************************************************************)
(* get_corpus_stats over stores with and without snapshot rows.            *)
(***************************************************************************)
FileSizes == {10}

\* '', '{', '[]', '{}', '{"STJ": 1}'
SnapshotTexts ==
    {NULL, Val(<< >>), Val(<<LBrace>>), Val(<<LBrack, RBrack>>),
     Val(<<LBrace, RBrace>>),
     Val(<<LBrace, StrTok(STJ), Colon, NumTok(1), RBrace>>)}

NextStats ==
    \/ InsertDocument(Nullable({STJ}), Nullable(Years), {NULL})
    \/ InsertMetrics(Nullable({2}), Nullable(FileSizes), {NULL})
    \/ generate_corpus_stats
    \/ WriteSnapshot({Val(0)}, SnapshotTexts)
    \/ get_corpus_stats(NoFault)
    \/ Respond

SpecStats == Init /\ [][NextStats]_vars

GotStats == ret.op = "get_corpus_stats" /\ ret.raised = "none"

\* C4: in every store state where the documents table is empty, with or
\* without snapshot rows and metrics rows, get_corpus_stats returns
\* total_documents = 0, total_pages = 0, total_size_bytes = 0 and empty courts
\* and years mappings; none of the five fields is null.
C4_EmptyCorpusZero ==
    (GotStats /\ documents = << >>) =>
        /\ ret.value.total_documents = Val(0)
        /\ ret.value.total_pages = Val(0)
        /\ ret.value.total_size_bytes = Val(0)
        /\ ret.value.courts = PyDict({})
        /\ ret.value.years = PyDict({})

\* the text deserializes to a mapping from strings to integers
IsCountMapping(text) ==
    LET r == JsonLoads(text)
    IN  r.ok /\ r.v.t = "dict" /\ \A q \in r.v.d : q[2].t = "int"

Decoded(x) == IF IsCountMapping(x[1]) THEN JsonLoads(x[1]).v ELSE PyDict({})

\* C5: when the latest snapshot row exists, get_corpus_stats returns normally
\* and decodes courts and years independently: a field whose stored text is
\* no string-to-integer mapping comes back as the empty mapping, the other as
\* its deserialized mapping.
C5_FieldsDecodedIndependently ==
    (ret.op = "get_corpus_stats" /\ corpus_stats /= << >>) =>
        LET row == corpus_stats[Len(corpus_stats)]
        IN  /\ ret.raised = "none"
            /\ row.courts /= NULL => ret.value.courts = Decoded(row.courts)
            /\ row.years /= NULL => ret.value.years = Decoded(row.years)

(***************************************************************************)
(* get_recent_documents over stores with dated and undated documents.      *)
(***************************************************************************)
Limits == {0, 1, 2, 10}

RecentFaults == {"none", "connect", "cursor", "execute", "fallback", "convert"}

NextRecent ==
    \/ InsertDocument(Nullable({STJ}), {NULL}, Nullable(Dates))
    \/ InsertMetrics(Nullable({2}), {NULL}, {NULL})
    \/ get_recent_documents(Limits, RecentFaults)
    \/ Respond

SpecRecent == Init /\ [][NextRecent]_vars

Listed == ret.op = "get_recent_documents"

Min(a, b) == IF a < b THEN a ELSE b

\* C6: for every positive limit and every documents table of n rows whose
\* added_date values are all null, get_recent_documents(limit) takes the
\* fallback path and returns exactly min(limit, n) rows: the rows with the
\* greatest document ids, in id-descending order.
C6_UndatedFallsBackToId ==
    (/\ Listed /\ ret.fault = "none" /\ ret.limit > 0
     /\ \A k \in 1..Len(documents) : documents[k].added_date = NULL
     /\ \A k \in 1..Len(documents) :
           Cardinality({m \in 1..Len(document_metrics) :
                           document_metrics[m].document_id = k}) <= 1) =>
        LET n == Len(documents)
        IN  /\ Len(ret.value) = Min(ret.limit, n)
            /\ \A i \in 1..Len(ret.value) : ret.value[i].id = Val(n + 1 - i)

\* C9: get_recent_documents never propagates an error to its caller: if a
\* store step fails (opening the connection, creating the cursor, the first
\* query, the fallback query, the row conversion) the failure is caught and
\* the operation returns an empty sequence.
C9_RecentNeverRaises ==
    Listed =>
        /\ ret.raised = "none"
        /\ ret.fault \in {"connect", "cursor", "execute"} => ret.value = << >>

(***************************************************************************)
(* get_document over documents with and without a metadata blob.           *)
(***************************************************************************)
\* NULL, '', '{', '[]', '{"judge": "X"}'
MetaBlobs ==
    {NULL, Val(<< >>), Val(<<LBrace>>), Val(<<LBrack, RBrack>>),
     Val(<<LBrace, StrTok("judge"), Colon, StrTok("X"), RBrace>>)}

LookupIds == {EcliOf(k) : k \in DocIds}

NextDetail ==
    \/ InsertDocument(Nullable({STJ}), {NULL}, {NULL})
    \/ InsertMetrics(Nullable({2}), {NULL}, MetaBlobs)
    \/ get_document(LookupIds, NoFault)
    \/ Respond

SpecDetail == Init /\ [][NextDetail]_vars

Exists(ecli_id) == \E k \in 1..Len(documents) : documents[k].ecli_id = ecli_id

\* the keys of the blobs of the document's metrics rows that deserialize to a
\* mapping
BlobKeys(ecli_id) ==
    UNION {LET r == JsonLoads(document_metrics[m].pdf_metadata[1])
           IN  IF r.ok /\ r.v.t = "dict" THEN {q[1] : q \in r.v.d} ELSE {} :
              m \in {x \in 1..Len(document_metrics) :
                        /\ document_metrics[x].pdf_metadata /= NULL
                        /\ \E k \in 1..Len(documents) :
                              /\ documents[k].ecli_id = ecli_id
                              /\ document_metrics[x].document_id = documents[k].id}}

\* C7: get_document returns an explicit not-found result when no document
\* has the id; for an existing document the result holds the document and
\* metrics fields and every key of the deserialized metadata blob, and never
\* the raw pdf_metadata field, whatever the blob (a mapping, null or empty,
\* malformed).
C7_DetailWithoutRawBlob ==
    ret.op = "get_document" =>
        /\ ret.raised = "none"
        /\ ~Exists(ret.ecli_id) => ret.status = 404 /\ ret.value = NotFound
        /\ Exists(ret.ecli_id) =>
              /\ ret.status = 200
              /\ (DetailCols \ {"pdf_metadata"}) \subseteq DOMAIN ret.value
              /\ BlobKeys(ret.ecli_id) \subseteq DOMAIN ret.value
              /\ "pdf_metadata" \notin DOMAIN ret.value

(***************************************************************************)
(* submit_feedback, before and after the bootstrap created user_feedback.  *)
(***************************************************************************)
\* {}, {type, rating}, and a record that brings a timestamp of its own
FeedbackData ==
    {<< >>,
     [type |-> "bug", rating |-> 2],
     [type |-> "idea", rating |-> 5, comment |-> "c", document_id |-> "ECLI_1",
      timestamp |-> [by |-> "client", at |-> 1]]}

NextFeedback ==
    \/ CreateTables
    \/ InsertDocument(Nullable({STJ}), {NULL}, {NULL})
    \/ submit_feedback(FeedbackData, NoFault)
    \/ Respond

SpecFeedback == Init /\ [][NextFeedback]_vars

\* C8: whether user_feedback is absent or was created by the bootstrap,
\* submit_feedback with a non-empty record appends exactly one row carrying
\* the record's type, rating, comment and document id and a non-null
\* timestamp made by the server, leaves the stored rows unchanged and
\* returns a success acknowledgment.
C8_FeedbackAppended ==
    (ret.op = "submit_feedback" /\ DOMAIN ret.data /= {}) =>
        /\ ret.raised = "none"
        /\ ret.value = Success
        /\ Len(user_feedback) = Len(ret.before) + 1
        /\ SubSeq(user_feedback, 1, Len(ret.before)) = ret.before
        /\ LET row == user_feedback[Len(user_feedback)]
           IN  /\ row.feedback_type = Get(ret.data, "type")
               /\ row.rating = Get(ret.data, "rating")
               /\ row.comment = Get(ret.data, "comment")
               /\ row.document_id = Get(ret.data, "document_id")
               /\ row.timestamp /= NULL
               /\ row.timestamp[1].by = "server"

(***************************************************************************)
(* The dashboard: every operation, over a store that is written meanwhile, *)
(* with the failures of the store.                                         *)
(***************************************************************************)
Faults == {"none", "connect", "cursor", "execute"}

Next ==
    \/ CreateTables
    \/ InsertDocument({Val(STJ)}, {NULL}, Nullable({1}))
    \/ InsertMetrics({Val(2)}, {NULL}, {NULL})
    \/ generate_corpus_stats
    \/ WriteSnapshot({Val(0)}, {NULL})
    \/ get_corpus_stats(Faults)
    \/ get_documents_by_court(Faults)
    \/ get_documents_by_year(Faults)
    \/ get_document_metrics(Faults)
    \/ get_recent_documents({10}, Faults)
    \/ search_documents(BoundQueries, Faults)
    \/ get_document(LookupIds, Faults)
    \/ submit_feedback(FeedbackData, Faults)
    \/ Respond

Spec == Init /\ [][Next]_vars

\* C10: every public operation opens exactly one connection and has closed
\* it when it exits, on every exit path, exits by exception included; after
\* any sequence of completed or failed operations no connection is open.
C10_ConnectionsReleased ==
    /\ open_conns = 0
    /\ (ret.op /= "none" /\ ret.opened = 1) => ret.closed = 1

(***************************************************************************)
(* Snapshots generated between insertions, and get_corpus_stats.           *)
(***************************************************************************)
NextSnapshots ==
    \/ InsertDocument({Val(STJ)}, {NULL}, {NULL})
    \/ InsertMetrics({Val(2)}, {Val(10)}, {NULL})
    \/ generate_corpus_stats
    \/ get_corpus_stats(NoFault)
    \/ Respond

SpecSnapshots == Init /\ [][NextSnapshots]_vars

\* the three totals of a returned value or of a stored row
Totals(r) == <<r.total_documents, r.total_pages, r.total_size_bytes>>

\* the stored row no other row exceeds in id
GreatestId(rows) ==
    CHOOSE k \in 1..Len(rows) : \A j \in 1..Len(rows) : rows[j].id <= rows[k].id

\* the totals counted from the raw tables
RawTotals ==
    <<Val(Len(documents)),
      Val(SumCol(document_metrics, "page_count")),
      Val(SumCol(document_metrics, "file_size"))>>

ReturnedStats ==
    /\ ret.raised = "none"
    /\ IF corpus_stats /= << >>
       THEN /\ Totals(ret.value) = Totals(corpus_stats[GreatestId(corpus_stats)])
            /\ ret.executed = <<"corpus_stats">>
       ELSE /\ Totals(ret.value) = RawTotals
            /\ Len(ret.executed) > 1

\* C11: after any sequence of document insertions, snapshot generations and
\* get_corpus_stats calls, get_corpus_stats returns the totals of the
\* snapshot row with the greatest id when a snapshot row exists, returns the
\* totals recomputed from the raw tables only when none exists, and in both
\* cases leaves the corpus_stats table as it was.
C11_LatestSnapshotUnchanged ==
    [][ret'.op = "get_corpus_stats" =>
           /\ corpus_stats' = corpus_stats
           /\ ReturnedStats']_vars

\* the case of C11: two snapshot rows with different totals, and
\* get_corpus_stats has returned the totals of the later one
C11_Witness ==
    /\ ret.op = "get_corpus_stats"
    /\ Len(corpus_stats) = 2
    /\ Totals(corpus_stats[1]) /= Totals(corpus_stats[2])
    /\ Totals(ret.value) = Totals(corpus_stats[2])
    /\ Totals(ret.value) /= RawTotals

====
